---- MODULE Spec2Model ----
(***************************************************************************)
(* A model of word_to_markdown.py: one run of main(), which downloads a    *)
(* Word document, converts it to Markdown with extracted images, uploads   *)
(* every extracted .png to the object store and rewrites the image tags.   *)
(*                                                                         *)
(* Strings are sequences of one-character strings, so that the regular     *)
(* expression of process_referenced_images and the f-strings of            *)
(* upload_file_to_minio are computed character by character.               *)
(*                                                                         *)
(* File names are drawn from letters, digits, "_" and ".", the characters  *)
(* the converter uses for the images it writes.  (A name holding a         *)
(* backslash would make re.sub read the replacement as a template; such a  *)
(* name is outside the alphabet of this model.)                            *)
(*                                                                         *)
(* main calls word_to_markdown_from_url with use_referenced_mode=True, so  *)
(* the export_to_markdown branch of lines 131-133 is never taken.  The     *)
(* object store is used by this run alone; objects of earlier runs are     *)
(* already in the bucket in some initial states.                           *)
(***************************************************************************)
EXTENDS Integers, Sequences, FiniteSets, TLC

VARIABLES
    pc,                \* position of the run in main / word_to_markdown_from_url
    fs,                \* the temporary directory and what it holds
    markdown_content,  \* the local variable markdown_content
    image_files,       \* the list image_files of process_referenced_images
    idx,               \* position of the for loop in image_files
    minio_url,         \* file name -> what upload_file_to_minio returned (<<>> is None)
    attempts,          \* file name -> number of upload_file_to_minio calls
    bucket,            \* the bucket MINIO_BUCKET exists on the server
    store,             \* object names held by the bucket
    uploads,           \* log of the successful fput_object calls
    makes,             \* number of make_bucket requests sent in this run
    puts,              \* number of fput_object requests sent in this run
    produced,          \* what the converter produced in this run
    output_file,       \* content of output_improved.md
    written,           \* output_improved.md was written in this run
    downloads,         \* number of requests.get calls
    converts,          \* number of converter.convert calls
    caught,            \* number of times main's except clause ran
    exc                \* the exception main caught

vars == <<pc, fs, markdown_content, image_files, idx, minio_url, attempts, bucket,
          store, uploads, makes, puts, produced, output_file, written, downloads,
          converts, caught, exc>>

(***************************************************************************)
(* Bounds of the model.                                                    *)
(***************************************************************************)
\* number of segments a converted Markdown document is made of
MaxSegs == 2
\* number of files the converter leaves in the artifacts directory
MaxFiles == 2

(***************************************************************************)
(* Program constants.                                                      *)
(***************************************************************************)
MINIO_BUCKET == <<"i", "m", "g">>
MINIO_BASE_URL ==
    <<"h", "t", "t", "p", ":", "/", "/", "1", "2", "7", ".", "0", ".", "0", ".", "1",
      ":", "9", "0", "0", "0">>

(***************************************************************************)
(* The inputs.                                                             *)
(***************************************************************************)
\* values uuid.uuid4() may return (all of one length, hexadecimal)
UUIDs == {<<"e">>, <<"f">>}

PngA == <<"a", ".", "p", "n", "g">>
PngEA == <<"e", "_", "a", ".", "p", "n", "g">>
OtherFile == <<"c", ".", "m", "d">>
\* names of the files the converter may leave in the artifacts directory
FileNames == {PngA, PngEA, OtherFile}

\* pieces of Markdown the converter's output is made of
SegText == <<"a", ".", "p", "n", "g", " ">>
SegTagA == <<"!", "[", "x", "]", "(", "d", "/", "a", ".", "p", "n", "g", ")">>
SegTagEA == <<"!", "[", "]", "(", "e", "_", "a", ".", "p", "n", "g", ")">>
SegTagOther == <<"!", "[", "y", "]", "(", "h", ")", " ", "a", ".", "p", "n", "g">>
SegOpen == <<"!", "[">>
Segments == {SegText, SegTagA, SegTagEA, SegTagOther, SegOpen}

RECURSIVE Flatten(_)
Flatten(ss) == IF ss = <<>> THEN <<>> ELSE Head(ss) \o Flatten(Tail(ss))

Docs == {Flatten(ss) : ss \in UNION {[1..k -> Segments] : k \in 0..MaxSegs}}

FileSets == {S \in SUBSET FileNames : Cardinality(S) <= MaxFiles}

Permutations_(S) ==
    {p \in [1..Cardinality(S) -> S] : \A a, b \in 1..Cardinality(S) : p[a] = p[b] => a = b}

(***************************************************************************)
(* String helpers.                                                         *)
(***************************************************************************)
Min(S) == CHOOSE m \in S : \A n \in S : m <= n

\* s[from..] starts with p
StartsWithAt(s, p, from) ==
    /\ from + Len(p) - 1 <= Len(s)
    /\ \A j \in 1..Len(p) : s[from + j - 1] = p[j]

StartsWith(s, p) == StartsWithAt(s, p, 1)

EndsWith(s, p) == Len(p) <= Len(s) /\ StartsWithAt(s, p, Len(s) - Len(p) + 1)

\* sub occurs in s[lo..hi]
ContainsIn(s, sub, lo, hi) ==
    \E from \in lo..(hi - Len(sub) + 1) : StartsWithAt(s, sub, from)

\* the first index >= from at which s holds c, 0 when there is none
FindFrom(s, c, from) ==
    LET S == {j \in from..Len(s) : s[j] = c}
    IN  IF S = {} THEN 0 ELSE Min(S)

(***************************************************************************)
(* upload_file_to_minio: the names it builds.                              *)
(***************************************************************************)
\* the object name without the identifier in front
UniqueFilenamePlain(id, object_name) == object_name

\* f"{uuid.uuid4()}_{object_name}"
UniqueFilename(id, object_name) == id \o <<"_">> \o object_name

\* the URL without the bucket in its path
PublicUrlNoBucket(unique_filename) == MINIO_BASE_URL \o <<"/">> \o unique_filename

\* f"{MINIO_BASE_URL}/{MINIO_BUCKET}/{unique_filename}"
PublicUrl(unique_filename) ==
    MINIO_BASE_URL \o <<"/">> \o MINIO_BUCKET \o <<"/">> \o unique_filename

(***************************************************************************)
(* process_referenced_images: the substitution.                            *)
(***************************************************************************)
\* f'![Image]({minio_url})'
NewImageRef(url) == <<"!", "[", "I", "m", "a", "g", "e", "]", "(">> \o url \o <<")">>

\* a pattern that takes the file name for the whole target: !\[[^\]]*\]\(NAME\)
MatchEndWholeTarget(md, i, name) ==
    IF ~(i + 1 <= Len(md) /\ md[i] = "!" /\ md[i + 1] = "[") THEN 0
    ELSE LET j == FindFrom(md, "]", i + 2)
         IN  IF j = 0 \/ j + 1 > Len(md) \/ md[j + 1] # "(" THEN 0
             ELSE LET k == FindFrom(md, ")", j + 2)
                  IN  IF k = 0 THEN 0
                      ELSE IF SubSeq(md, j + 2, k - 1) = name THEN k ELSE 0

\* a pattern that leaves the file name out: !\[[^\]]*\]\([^)]*\)
MatchEndAnyTag(md, i, name) ==
    IF ~(i + 1 <= Len(md) /\ md[i] = "!" /\ md[i + 1] = "[") THEN 0
    ELSE LET j == FindFrom(md, "]", i + 2)
         IN  IF j = 0 \/ j + 1 > Len(md) \/ md[j + 1] # "(" THEN 0
             ELSE FindFrom(md, ")", j + 2)

\* The pattern  !\[[^\]]*\]\([^)]*NAME[^)]*\)  tried at position i of md:
\* the index of the last character of the match, 0 when it does not match.
\* [^\]]* stops at the first "]", [^)]* at the first ")".
MatchEnd(md, i, name) ==
    IF ~(i + 1 <= Len(md) /\ md[i] = "!" /\ md[i + 1] = "[") THEN 0
    ELSE LET j == FindFrom(md, "]", i + 2)
         IN  IF j = 0 \/ j + 1 > Len(md) \/ md[j + 1] # "(" THEN 0
             ELSE LET k == FindFrom(md, ")", j + 2)
                  IN  IF k = 0 THEN 0
                      ELSE IF ContainsIn(md, name, j + 2, k - 1) THEN k ELSE 0

\* re.sub(pattern, new_image_ref, markdown_content): the leftmost match at
\* or after i is replaced, the search goes on behind it; what no match covers
\* is copied.
RECURSIVE ReSubFrom(_, _, _, _)
ReSubFrom(md, name, repl, i) ==
    LET starts == {s \in i..Len(md) : MatchEnd(md, s, name) # 0}
    IN  IF starts = {} THEN SubSeq(md, i, Len(md))
        ELSE LET s == Min(starts)
             IN  SubSeq(md, i, s - 1) \o repl
                     \o ReSubFrom(md, name, repl, MatchEnd(md, s, name) + 1)

ReSub(md, name, repl) == ReSubFrom(md, name, repl, 1)

\* artifacts_dir.glob("*.png")
IsPng(name) == EndsWith(name, <<".", "p", "n", "g">>)
GlobPng(files) == {f \in files : IsPng(f)}

(***************************************************************************)
(* The temporary directory.                                                *)
(***************************************************************************)
NoDir == [temp_dir |-> FALSE, docx |-> FALSE, markdown_file |-> FALSE,
          artifacts_dir |-> FALSE, files |-> {}]

\* a directory that is left behind
ExitTempDirKeep(f) == f

\* tempfile.TemporaryDirectory().__exit__: the directory and all it holds go
ExitTempDir(f) == NoDir

NoUrls == [f \in FileNames |-> <<>>]
NoAttempts == [f \in FileNames |-> 0]
NoProduct == [done |-> FALSE, md |-> <<>>, files |-> {}]

\* an object an earlier run stored
EarlierUpload ==
    [id |-> <<"e">>, name |-> PngA, object |-> UniqueFilename(<<"e">>, PngA),
     url |-> PublicUrl(UniqueFilename(<<"e">>, PngA))]

Init ==
    /\ pc = "start"
    /\ fs = NoDir
    /\ markdown_content = <<>>
    /\ image_files = <<>>
    /\ idx = 0
    /\ minio_url = NoUrls
    /\ attempts = NoAttempts
    /\ \E earlier \in {{}, {EarlierUpload}} :
          /\ uploads = earlier
          /\ store = {u.object : u \in earlier}
          /\ bucket \in (IF earlier = {} THEN BOOLEAN ELSE {TRUE})
    /\ makes = 0
    /\ puts = 0
    /\ produced = NoProduct
    /\ output_file = <<>>
    /\ written = FALSE
    /\ downloads = 0
    /\ converts = 0
    /\ caught = 0
    /\ exc = "none"

\* an except clause that lets main go on to write the output
RaiseSwallowed(e) ==
    /\ pc' = "write"
    /\ fs' = ExitTempDir(fs)
    /\ caught' = caught + 1
    /\ exc' = e

(***************************************************************************)
(* An exception leaving word_to_markdown_from_url from inside the with     *)
(* block: the temporary directory is removed, main's except clause runs.   *)
(***************************************************************************)
Raise(e) ==
    /\ pc' = "caught"
    /\ fs' = ExitTempDir(fs)
    /\ caught' = caught + 1
    /\ exc' = e

(***************************************************************************)
(* word_to_markdown_from_url                                               *)
(***************************************************************************)
\* lines 96-107: the directory is created, the document downloaded into it
Download ==
    /\ pc = "start"
    /\ downloads' = downloads + 1
    /\ pc' = "convert"
    /\ fs' = [NoDir EXCEPT !.temp_dir = TRUE, !.docx = TRUE]
    /\ UNCHANGED <<markdown_content, image_files, idx, minio_url, attempts, bucket, store,
                   uploads, makes, puts, produced, output_file, written, converts, caught, exc>>

\* requests.get raises, or raise_for_status does on a status that is not 2xx
DownloadFail ==
    /\ pc = "start"
    /\ downloads' = downloads + 1
    /\ \E e \in {"network", "status"} : Raise(e)
    /\ UNCHANGED <<markdown_content, image_files, idx, minio_url, attempts, bucket, store,
                   uploads, makes, puts, produced, output_file, written, converts>>

\* line 110
Convert ==
    /\ pc = "convert"
    /\ converts' = converts + 1
    /\ pc' = "save"
    /\ UNCHANGED <<fs, markdown_content, image_files, idx, minio_url, attempts, bucket,
                   store, uploads, makes, puts, produced, output_file, written, downloads, caught,
                   exc>>

ConvertFail ==
    /\ pc = "convert"
    /\ converts' = converts + 1
    /\ Raise("convert")
    /\ UNCHANGED <<markdown_content, image_files, idx, minio_url, attempts, bucket, store,
                   uploads, makes, puts, produced, output_file, written, downloads>>

\* lines 113-123: the directories are made, the converter writes input.md
\* and the image files
SaveAsMarkdown ==
    /\ pc = "save"
    /\ \E md \in Docs, files \in FileSets :
          /\ produced' = [done |-> TRUE, md |-> md, files |-> files]
          /\ fs' = [fs EXCEPT !.markdown_file = TRUE, !.artifacts_dir = TRUE,
                              !.files = files]
    /\ pc' = "read"
    /\ UNCHANGED <<markdown_content, image_files, idx, minio_url, attempts, bucket, store,
                   uploads, makes, puts, output_file, written, downloads, converts, caught, exc>>

SaveAsMarkdownFail ==
    /\ pc = "save"
    /\ Raise("save")
    /\ UNCHANGED <<markdown_content, image_files, idx, minio_url, attempts, bucket, store,
                   uploads, makes, puts, produced, output_file, written, downloads, converts>>

\* lines 125-126
ReadMarkdown ==
    /\ pc = "read"
    /\ markdown_content' = produced.md
    /\ pc' = "process"
    /\ UNCHANGED <<fs, image_files, idx, minio_url, attempts, bucket, store, uploads, makes, puts,
                   produced, output_file, written, downloads, converts, caught, exc>>

ReadMarkdownFail ==
    /\ pc = "read"
    /\ Raise("read")
    /\ UNCHANGED <<markdown_content, image_files, idx, minio_url, attempts, bucket, store,
                   uploads, makes, puts, produced, output_file, written, downloads, converts>>

(***************************************************************************)
(* process_referenced_images                                               *)
(***************************************************************************)
\* where the for loop goes after the image at position i
AfterImage(i) == IF i + 1 <= Len(image_files) THEN "upload" ELSE "return"

\* lines 64-73: the early returns, the glob (in the order the file system
\* gives)
EnterProcess ==
    /\ pc = "process"
    /\ IF ~fs.artifacts_dir \/ GlobPng(fs.files) = {}
       THEN /\ pc' = "return"
            /\ UNCHANGED <<image_files, idx>>
       ELSE /\ \E order \in Permutations_(GlobPng(fs.files)) : image_files' = order
            /\ idx' = 1
            /\ pc' = "upload"
    /\ UNCHANGED <<fs, markdown_content, minio_url, attempts, bucket, store, uploads, makes, puts,
                   produced, output_file, written, downloads, converts, caught, exc>>

\* an upload that does not look at the answer
AfterBucketExistsNoCheck(exists) == "fput"

\* where upload_file_to_minio goes after bucket_exists answered
AfterBucketExists(exists) == IF exists THEN "fput" ELSE "make_bucket"

\* a loop that tries the same image again
IndexAfterFailureRetry(i) == i

\* the index of the loop after upload_file_to_minio returned None
IndexAfterFailure(i) == i + 1

\* lines 57-59 and 79: upload_file_to_minio returns None, the loop goes on
UploadReturnsNone ==
    /\ pc' = AfterImage(idx)
    /\ idx' = IndexAfterFailure(idx)
    /\ UNCHANGED <<minio_url, markdown_content>>

\* line 77 and lines 36-43: the call, the client, bucket_exists
BucketExists ==
    /\ pc = "upload"
    /\ attempts' = [attempts EXCEPT ![image_files[idx]] = @ + 1]
    /\ pc' = AfterBucketExists(bucket)
    /\ UNCHANGED <<fs, markdown_content, image_files, idx, minio_url, bucket, store,
                   uploads, makes, puts, produced, output_file, written, downloads, converts,
                   caught, exc>>

BucketExistsFail ==
    /\ pc = "upload"
    /\ attempts' = [attempts EXCEPT ![image_files[idx]] = @ + 1]
    /\ UploadReturnsNone
    /\ UNCHANGED <<fs, image_files, bucket, store, uploads, makes, puts, produced, output_file,
                   written, downloads, converts, caught, exc>>

\* line 44
MakeBucket ==
    /\ pc = "make_bucket"
    /\ makes' = makes + 1
    /\ bucket' = TRUE
    /\ pc' = "fput"
    /\ UNCHANGED <<fs, markdown_content, image_files, idx, minio_url, attempts, store,
                   uploads, puts, produced, output_file, written, downloads, converts,
                   caught, exc>>

MakeBucketFail ==
    /\ pc = "make_bucket"
    /\ makes' = makes + 1
    /\ UploadReturnsNone
    /\ UNCHANGED <<fs, image_files, attempts, bucket, store, uploads, puts, produced,
                   output_file, written, downloads, converts, caught, exc>>

\* lines 46-55 and 79-82: the object is stored (the server stores into a
\* bucket it has), the URL returned, the tags naming the file rewritten
FputObject ==
    /\ pc = "fput"
    /\ bucket
    /\ \E id \in UUIDs :
          LET name == image_files[idx]
              unique_filename == UniqueFilename(id, name)
              url == PublicUrl(unique_filename)
          IN  /\ store' = store \cup {unique_filename}
              /\ uploads' = uploads \cup
                     {[id |-> id, name |-> name, object |-> unique_filename, url |-> url]}
              /\ minio_url' = [minio_url EXCEPT ![name] = url]
              /\ markdown_content' =
                     IF url # <<>>
                     THEN ReSub(markdown_content, name, NewImageRef(url))
                     ELSE markdown_content
    /\ puts' = puts + 1
    /\ pc' = AfterImage(idx)
    /\ idx' = idx + 1
    /\ UNCHANGED <<fs, image_files, attempts, bucket, makes, produced, output_file,
                   written, downloads, converts, caught, exc>>

FputObjectFail ==
    /\ pc = "fput"
    /\ puts' = puts + 1
    /\ UploadReturnsNone
    /\ UNCHANGED <<fs, image_files, attempts, bucket, store, uploads, makes, produced,
                   output_file, written, downloads, converts, caught, exc>>

\* lines 89 and 135: the Markdown is returned, the with block left
Return ==
    /\ pc = "return"
    /\ fs' = ExitTempDir(fs)
    /\ pc' = "write"
    /\ UNCHANGED <<markdown_content, image_files, idx, minio_url, attempts, bucket, store,
                   uploads, makes, puts, produced, output_file, written, downloads, converts,
                   caught, exc>>

(***************************************************************************)
(* main                                                                    *)
(***************************************************************************)
\* lines 156-158
WriteOutput ==
    /\ pc = "write"
    /\ output_file' = markdown_content
    /\ written' = TRUE
    /\ pc' = "done"
    /\ UNCHANGED <<fs, markdown_content, image_files, idx, minio_url, attempts, bucket,
                   store, uploads, makes, puts, produced, downloads, converts, caught, exc>>

\* open() raises: main's except clause runs
WriteOutputFail ==
    /\ pc = "write"
    /\ pc' = "caught"
    /\ caught' = caught + 1
    /\ exc' = "write"
    /\ UNCHANGED <<fs, markdown_content, image_files, idx, minio_url, attempts, bucket,
                   store, uploads, makes, puts, produced, output_file, written, downloads,
                   converts>>

Next ==
    \/ Download
    \/ DownloadFail
    \/ Convert
    \/ ConvertFail
    \/ SaveAsMarkdown
    \/ SaveAsMarkdownFail
    \/ ReadMarkdown
    \/ ReadMarkdownFail
    \/ EnterProcess
    \/ BucketExists
    \/ BucketExistsFail
    \/ MakeBucket
    \/ MakeBucketFail
    \/ FputObject
    \/ FputObjectFail
    \/ Return
    \/ WriteOutput
    \/ WriteOutputFail

Spec == Init /\ [][Next]_vars

(***************************************************************************)
(* Reading a Markdown text: its image tags and the text around them.       *)
(***************************************************************************)
\* the index closing the image tag ![alt](target) that opens at i, 0 when
\* none opens there
TagClose(md, i) ==
    IF i + 1 > Len(md) \/ md[i] # "!" \/ md[i + 1] # "[" THEN 0
    ELSE LET rb == {j \in (i + 2)..Len(md) : md[j] = "]"}
         IN  IF rb = {} THEN 0
             ELSE LET j == Min(rb)
                      rp == {k \in (j + 2)..Len(md) : md[k] = ")"}
                  IN  IF j + 1 > Len(md) \/ md[j + 1] # "(" \/ rp = {} THEN 0
                      ELSE Min(rp)

TagOf(md, i, k) ==
    LET j == Min({n \in (i + 2)..k : md[n] = "]"})
    IN  [alt |-> SubSeq(md, i + 2, j - 1), target |-> SubSeq(md, j + 2, k - 1)]

\* the image tags of md, in order
RECURSIVE TagsFrom(_, _)
TagsFrom(md, i) ==
    LET opens == {s \in i..Len(md) : TagClose(md, s) # 0}
    IN  IF opens = {} THEN <<>>
        ELSE LET s == Min(opens)
             IN  <<TagOf(md, s, TagClose(md, s))>> \o TagsFrom(md, TagClose(md, s) + 1)

Tags(md) == TagsFrom(md, 1)

\* md with every image tag replaced by one mark: the text outside the tags
RECURSIVE OutsideFrom(_, _)
OutsideFrom(md, i) ==
    LET opens == {s \in i..Len(md) : TagClose(md, s) # 0}
    IN  IF opens = {} THEN SubSeq(md, i, Len(md))
        ELSE LET s == Min(opens)
             IN  SubSeq(md, i, s - 1) \o <<"<tag>">> \o OutsideFrom(md, TagClose(md, s) + 1)

Outside(md) == OutsideFrom(md, 1)

Contains(s, sub) == ContainsIn(s, sub, 1, Len(s))

\* the last component of a path
Basename(target) ==
    LET slashes == {j \in 1..Len(target) : target[j] = "/"}
    IN  IF slashes = {} THEN target
        ELSE SubSeq(target, (CHOOSE m \in slashes : \A n \in slashes : n <= m) + 1,
                    Len(target))

BucketUrlPrefix == MINIO_BASE_URL \o <<"/">> \o MINIO_BUCKET \o <<"/">>
ImageAlt == <<"I", "m", "a", "g", "e">>

\* process_referenced_images returns markdown_content
Processed == pc = "return"

ExtractedPng == GlobPng(produced.files)
Uploaded == {f \in ExtractedPng : minio_url[f] # <<>>}
FailedUpload == {f \in ExtractedPng : attempts[f] > 0 /\ minio_url[f] = <<>>}

(***************************************************************************)
(* The claims.                                                             *)
(***************************************************************************)
\* C1: once process_referenced_images has returned, every image tag whose
\* target held the name of a .png file that was uploaded with success is a
\* tag ![Image](url) whose url starts with {MINIO_BASE_URL}/{MINIO_BUCKET}/.
C1_UploadedTagsPointAtBucket ==
    Processed =>
        LET TagsBefore == Tags(produced.md)
            TagsAfter == Tags(markdown_content)
        IN
        /\ Len(TagsAfter) = Len(TagsBefore)
        /\ \A f \in Uploaded : \A t \in 1..Len(TagsBefore) :
              Contains(TagsBefore[t].target, f) =>
                  /\ TagsAfter[t].alt = ImageAlt
                  /\ StartsWith(TagsAfter[t].target, BucketUrlPrefix)
                  /\ TagsAfter[t] # TagsBefore[t]

C1_Witness ==
    /\ Processed
    /\ LET TagsBefore == Tags(produced.md)
       IN  \E f \in Uploaded : \E t \in 1..Len(TagsBefore) :
          /\ Contains(TagsBefore[t].target, f)
          /\ Basename(TagsBefore[t].target) = f
          /\ TagsBefore[t].target # f

\* C2 (as stated): when the upload of an image has failed, the tag that
\* refers to that image is in the final Markdown as the converter wrote it,
\* the other images are still processed and main goes on to write the output.
C2_FailedUploadLeavesTag ==
    /\ Processed =>
          LET TagsBefore == Tags(produced.md)
              TagsAfter == Tags(markdown_content)
          IN
          /\ \A f \in ExtractedPng : attempts[f] = 1
          /\ Len(TagsAfter) = Len(TagsBefore)
          /\ \A f \in FailedUpload : \A t \in 1..Len(TagsBefore) :
                Basename(TagsBefore[t].target) = f => TagsAfter[t] = TagsBefore[t]
    /\ pc = "caught" => exc \in {"network", "status", "convert", "save", "read", "write"}
    /\ pc = "done" => /\ written
                      /\ output_file = markdown_content

\* C3 (as stated): once all images are processed, every tag that named the
\* extracted file F points at the URL returned for F itself.
C3_TagPointsAtOwnUpload ==
    Processed =>
        LET TagsBefore == Tags(produced.md)
            TagsAfter == Tags(markdown_content)
        IN
        /\ Len(TagsAfter) = Len(TagsBefore)
        /\ \A f \in Uploaded : \A t \in 1..Len(TagsBefore) :
              Basename(TagsBefore[t].target) = f => TagsAfter[t].target = minio_url[f]

\* every extracted image is referenced by exactly one tag and there is no
\* other tag
EachReferencedOnce ==
    LET TagsBefore == Tags(produced.md)
    IN
    /\ Len(TagsBefore) = Cardinality(ExtractedPng)
    /\ \A f \in ExtractedPng :
          Cardinality({t \in 1..Len(TagsBefore) : Basename(TagsBefore[t].target) = f}) = 1

BucketTags(md) ==
    LET tags == Tags(md) IN {t \in 1..Len(tags) : StartsWith(tags[t].target, BucketUrlPrefix)}
LocalTags(md) ==
    LET tags == Tags(md) IN {t \in 1..Len(tags) : ~StartsWith(tags[t].target, MINIO_BASE_URL)}

\* C4: when download, conversion and every upload succeeded and each of the
\* k extracted images is referenced once, the file written holds exactly k
\* tags with an object-storage URL and no tag with a local path.
C4_AllTagsRewritten ==
    (pc = "done" /\ Uploaded = ExtractedPng /\ EachReferencedOnce) =>
        /\ written
        /\ Cardinality(BucketTags(output_file)) = Cardinality(ExtractedPng)
        /\ Len(Tags(output_file)) = Cardinality(ExtractedPng)
        /\ LocalTags(output_file) = {}

C4_Witness ==
    /\ pc = "done"
    /\ Uploaded = ExtractedPng
    /\ EachReferencedOnce
    /\ Cardinality(ExtractedPng) = 2

\* C5: after a failed download or conversion the run is over: no upload was
\* attempted, main's except clause ran once, the output file is not written.
C5_FailureAborts ==
    exc \in {"network", "status", "convert"} =>
        /\ pc = "caught"
        /\ caught = 1
        /\ ~written
        /\ output_file = <<>>
        /\ attempts = NoAttempts
        /\ makes = 0
        /\ puts = 0
        /\ ~ENABLED Next

C5_Witness == exc = "convert" /\ pc = "caught"

\* C6: once word_to_markdown_from_url has exited, by a return or by an
\* exception, the temporary directory and what it held are gone.
C6_TempDirRemoved ==
    /\ pc \in {"write", "done", "caught"} => fs = NoDir
    /\ pc = "start" => fs = NoDir

C6_Witness == pc = "caught" /\ exc = "read" /\ produced.files # {} /\ fs = NoDir

\* C7: an fput_object request is sent only while the bucket exists; a call
\* reaches it only past bucket_exists and, the bucket missing, make_bucket;
\* when make_bucket fails the call sends no fput_object and returns None.
C7_BucketBeforeUpload ==
    [][/\ puts' # puts => bucket
       /\ pc' = "fput" => bucket'
       /\ (pc = "make_bucket" /\ ~bucket') =>
              /\ puts' = puts
              /\ store' = store
              /\ minio_url'[image_files[idx]] = <<>>
              /\ markdown_content' = markdown_content
              /\ idx' = idx + 1]_vars

C7_Witness == makes = 1 /\ puts = 1 /\ bucket /\ store # {}

\* C8: two successful uploads that drew different identifiers have different
\* object names and URLs, also for one file name; an upload whose identifier
\* no earlier upload drew replaces no object of the bucket.
C8_UniqueObjects ==
    /\ [](\A u1, u2 \in uploads :
              u1.id # u2.id => u1.object # u2.object /\ u1.url # u2.url)
    /\ [][\A u \in uploads' \ uploads :
              u.id \notin {v.id : v \in uploads} => u.object \notin store]_vars

C8_Witness ==
    \E u1, u2 \in uploads : u1.name = u2.name /\ u1.id # u2.id

SumAttempts == attempts[PngA] + attempts[PngEA] + attempts[OtherFile]

\* C9: one download request, at most one conversion, at most one upload call
\* for each extracted .png and none for any other file; the calls come after
\* the conversion and before the output file is written.
C9_OneOfEach ==
    /\ [](/\ downloads <= 1
          /\ converts <= 1
          /\ pc \in {"done", "caught"} => downloads = 1
          /\ \A f \in FileNames : attempts[f] <= (IF f \in ExtractedPng THEN 1 ELSE 0)
          /\ Processed => \A f \in ExtractedPng : attempts[f] = 1
          /\ makes <= SumAttempts
          /\ puts <= SumAttempts)
    /\ [][attempts' # attempts => converts = 1 /\ produced.done /\ ~written /\ ~written']_vars

C9_Witness ==
    /\ pc = "done"
    /\ Cardinality(ExtractedPng) = 2
    /\ SumAttempts = 2
    /\ FailedUpload # {}

\* C10: process_referenced_images changes matched tags only: the text
\* outside the tags, and every tag whose target holds the name of no file
\* uploaded with success, are as the converter wrote them; with no .png in
\* the artifacts directory the Markdown is returned unchanged and no upload
\* is attempted.
C10_OnlyMatchedTagsChange ==
    Processed =>
        LET TagsBefore == Tags(produced.md)
            TagsAfter == Tags(markdown_content)
        IN
        /\ Outside(markdown_content) = Outside(produced.md)
        /\ Len(TagsAfter) = Len(TagsBefore)
        /\ \A t \in 1..Len(TagsBefore) :
              (\A f \in Uploaded : ~Contains(TagsBefore[t].target, f)) =>
                  TagsAfter[t] = TagsBefore[t]
        /\ ExtractedPng = {} =>
              /\ markdown_content = produced.md
              /\ attempts = NoAttempts
              /\ puts = 0

C10_Witness ==
    /\ Processed
    /\ Uploaded # {}
    /\ LET TagsBefore == Tags(produced.md)
           TagsAfter == Tags(markdown_content)
       IN  \E t1, t2 \in 1..Len(TagsBefore) :
              /\ TagsAfter[t1] # TagsBefore[t1]
              /\ TagsAfter[t2] = TagsBefore[t2]
    /\ Contains(Outside(produced.md), PngA)


TypeOK ==
    /\ pc \in {"start", "convert", "save", "read", "process", "upload", "make_bucket",
               "fput", "return", "write", "done", "caught"}
    /\ bucket \in BOOLEAN
    /\ written \in BOOLEAN
====
